---- MODULE Spec2Model ----
(***************************************************************************)
(* Model of pc.py: a proxy scanner.  run_scan checks the target, builds    *)
(* the work queue `proxies`, starts `threads` worker threads that claim    *)
(* queue entries under request_count_lock, probe the target (visit_target) *)
(* and merge the outcome into `stats` under stats_lock; the main thread    *)
(* joins the workers, prints the report and writes the working proxies.    *)
(*                                                                         *)
(* Python strings are sequences of one-character strings; None and the     *)
(* empty string (both falsy, and only ever tested for truth) are <<>>.     *)
(* Worker ids are the thread_id values 0 .. threads-1.                     *)
(***************************************************************************)
EXTENDS Integers, Sequences, FiniteSets, TLC

----------------------------------------------------------------------------
(* Bounds of the model *)

\* largest -t value explored
MaxThreads == 2

\* longest string handed to validate_proxy on its own, besides ValidatorSamples
MaxStrLen == 3

----------------------------------------------------------------------------
(* Values *)

None == <<>>

\* float('inf'): above every measured duration
Inf == 2

NoOwner == -1

MaxPort == 65535

\* HTTP status codes a probe may receive
StatusCodes == {200, 404}

\* measured elapsed_time of a probe, in clock ticks (a coarse clock measures 0)
Elapsed == 0 .. (Inf - 1)

Workers == 0 .. (MaxThreads - 1)

\* lines a proxy file may hold (after line.strip()) and values of -p
sA == <<"a", ":", "1">>
sB == <<"b", ":", "2">>
sSchemeB == <<"h", "t", "t", "p", ":", "/", "/", "b", ":", "2">>
sNoPort == <<"a">>

\* contents of the proxy file: no line, only invalid lines, one entry, an
\* invalid line among valid ones, the same entry twice, two distinct entries
ProxyFiles ==
    {<<>>, <<sNoPort>>, <<sA>>, <<sNoPort, sA>>, <<sA, sA>>,
     <<sA, sNoPort, sSchemeB>>}

SingleProxies == {None, sA, sSchemeB, sNoPort}

\* characters of the strings handed to validate_proxy on its own
ValidatorAlphabet == {"a", ":", "1", "-", " ", "_"}

StringsUpTo(n) == UNION {[1 .. k -> ValidatorAlphabet] : k \in 0 .. n}

\* longer arguments: ports at and around the ends of the range, signs, an
\* extra colon, an empty host
ValidatorSamples ==
    {<<"a", ":", "0">>,
     <<"a", ":", "6", "5", "5", "3", "5">>,
     <<"a", ":", "6", "5", "5", "3", "6">>,
     <<"a", ":", "-", "1", "0">>,
     <<"a", ":", "+", "8", "0">>,
     <<"a", ":", "0", "0", "8", "0">>,
     <<"a", ":", "8", "0", ":", "1">>,
     <<"a", ":", "8", "0", "a">>,
     <<"a", ":", "8", ".", "0">>,
     <<"a", ":", " ", "8", "0", " ">>,
     <<"a", ":", "6", "5", "_", "5", "3", "5">>,
     <<"a", ":", "9", "9", "9", "9", "9", "9">>,
     <<":", "8", "0", "8", "0">>,
     <<"1", ".", "2", ".", "3", ".", "4", ":", "8", "0", "8", "0">>,
     <<"1", ".", "2", ".", "3", ".", "4">>}

ValidatorInputs == StringsUpTo(MaxStrLen) \cup ValidatorSamples

HttpPrefix == <<"h", "t", "t", "p", ":", "/", "/">>
HttpsPrefix == <<"h", "t", "t", "p", "s", ":", "/", "/">>

----------------------------------------------------------------------------
(* Pure functions *)

\* str.replace(pat, ''): leftmost non-overlapping occurrences removed
RECURSIVE Remove(_, _)
Remove(s, pat) ==
    IF Len(s) < Len(pat) THEN s
    ELSE IF SubSeq(s, 1, Len(pat)) = pat
         THEN Remove(SubSeq(s, Len(pat) + 1, Len(s)), pat)
         ELSE <<Head(s)>> \o Remove(Tail(s), pat)

format_proxy(proxy) ==
    IF proxy # None THEN Remove(Remove(proxy, HttpPrefix), HttpsPrefix)
    ELSE proxy

\* str.split(':')
RECURSIVE Split(_, _)
Split(s, acc) ==
    IF s = <<>> THEN <<acc>>
    ELSE IF Head(s) = ":" THEN <<acc>> \o Split(Tail(s), <<>>)
         ELSE Split(Tail(s), Append(acc, Head(s)))

Digits == {"0", "1", "2", "3", "4", "5", "6", "7", "8", "9"}

DigitVal(c) ==
    CASE c = "0" -> 0 [] c = "1" -> 1 [] c = "2" -> 2 [] c = "3" -> 3
      [] c = "4" -> 4 [] c = "5" -> 5 [] c = "6" -> 6 [] c = "7" -> 7
      [] c = "8" -> 8 [] c = "9" -> 9

RECURSIVE StripLeft(_)
StripLeft(s) ==
    IF s # <<>> /\ Head(s) = " " THEN StripLeft(Tail(s)) ELSE s

RECURSIVE StripRight(_)
StripRight(s) ==
    IF s # <<>> /\ s[Len(s)] = " " THEN StripRight(SubSeq(s, 1, Len(s) - 1))
    ELSE s

\* the digits of an int() literal: digits, single underscores between them
DigitsOk(s) ==
    /\ s # <<>>
    /\ \A i \in 1 .. Len(s) : s[i] \in Digits \cup {"_"}
    /\ s[1] # "_" /\ s[Len(s)] # "_"
    /\ \A i \in 1 .. (Len(s) - 1) : ~(s[i] = "_" /\ s[i + 1] = "_")

RECURSIVE DigitsVal(_, _)
DigitsVal(s, acc) ==
    IF s = <<>> THEN acc
    ELSE IF Head(s) = "_" THEN DigitsVal(Tail(s), acc)
         ELSE DigitsVal(Tail(s), 10 * acc + DigitVal(Head(s)))

\* int(text): [ok |-> FALSE] stands for ValueError
ParseInt(text) ==
    LET t == StripRight(StripLeft(text))
        signed == t # <<>> /\ Head(t) \in {"+", "-"}
        body == IF signed THEN Tail(t) ELSE t
    IN  IF DigitsOk(body)
        THEN [ok |-> TRUE,
              val |-> IF signed /\ Head(t) = "-" THEN 0 - DigitsVal(body, 0)
                      ELSE DigitsVal(body, 0)]
        ELSE [ok |-> FALSE, val |-> 0]

\* the try block of validate_proxy: what it returns, or the ValueError of int()
validate_proxy_try(proxy) ==
    LET parts == Split(proxy, <<>>)
    IN  IF Len(parts) # 2 THEN "False"
        ELSE LET port == ParseInt(parts[2])
             IN  IF ~port.ok THEN "ValueError"
                 ELSE IF ~(0 <= port.val /\ port.val <= MaxPort) THEN "False"
                 ELSE "True"

\* validate_proxy_outcome as it would be without the except clause
validate_proxy_uncaught(proxy) ==
    IF proxy = None THEN "False"
    ELSE validate_proxy_try(proxy)

\* what a call of validate_proxy ends in; except: return False
validate_proxy_outcome(proxy) ==
    IF proxy = None THEN "False"
    ELSE LET r == validate_proxy_try(proxy)
         IN  IF r = "ValueError" THEN "False" ELSE r

validate_proxy(proxy) == validate_proxy_outcome(proxy) = "True"

\* LoadProxies as it would be if an invalid line ended the loop
RECURSIVE LoadProxiesStopAtInvalid(_)
LoadProxiesStopAtInvalid(lines) ==
    IF lines = <<>> THEN <<>>
    ELSE LET proxy == format_proxy(Head(lines))
         IN  IF validate_proxy(proxy)
             THEN <<proxy>> \o LoadProxiesStopAtInvalid(Tail(lines))
             ELSE <<>>

\* the loop over the lines of the proxy file
RECURSIVE LoadProxies(_)
LoadProxies(lines) ==
    IF lines = <<>> THEN <<>>
    ELSE LET proxy == format_proxy(Head(lines))
         IN  IF validate_proxy(proxy) THEN <<proxy>> \o LoadProxies(Tail(lines))
             ELSE LoadProxies(Tail(lines))

RECURSIVE SkippedLines(_)
SkippedLines(lines) ==
    IF lines = <<>> THEN 0
    ELSE (IF validate_proxy(format_proxy(Head(lines))) THEN 0 ELSE 1)
         + SkippedLines(Tail(lines))

\* lengths of the work queues the inputs yield
QueueLens == {Len(LoadProxies(f)) : f \in ProxyFiles} \cup {0, 1}

\* the longest of them
MaxQueue == CHOOSE n \in QueueLens : \A m \in QueueLens : m <= n

----------------------------------------------------------------------------
(* State *)

VARIABLES
    \* inputs: how the program was entered and its arguments
    via_cli,            \* TRUE: __main__ with parsed arguments; FALSE: run_scan called
    arg_p,              \* -p / proxy
    arg_l,              \* -l / proxy_list given
    file_exists,        \* the proxy list file can be opened
    file_lines,         \* its lines, stripped
    threads,            \* -t / threads
    isp_flag,           \* -isp / isp_flag
    target_up,          \* the target answers the preliminary request
    vp_input,           \* argument of a call of validate_proxy on its own
    vp_result,          \* what that call ended in, "not_called" before it
    \* main thread
    cpc,                \* position of the main thread
    error,              \* the error message printed, "none" if none
    skipped,            \* number of "Skipping invalid proxy format" warnings
    proxies,            \* the work queue
    total_requests,
    started,            \* number of worker threads started
    join_idx,           \* index in thread_list of the thread being joined
    interrupted,        \* KeyboardInterrupt caught around the joins
    report,             \* what the final report printed
    output_file,        \* the lines of working_proxies_<ts>.txt, if written
    \* shared between the threads
    request_count,
    stats,
    successful_proxies,
    request_count_lock,
    print_lock,
    stats_lock,
    progress_n,         \* progress_bar.n
    \* worker locals
    wpc,
    current_proxy,
    result,             \* (success, status_code, elapsed_time)
    \* history
    cur_idx,            \* queue index of current_proxy
    claims,             \* the claims made, in order: [worker, index, entry]
    probes              \* per queue index: probes returned, outcomes recorded, outcome

inputs == <<via_cli, arg_p, arg_l, file_exists, file_lines, threads, isp_flag,
           target_up, vp_input, vp_result>>
mainv == <<cpc, error, skipped, proxies, total_requests, started, join_idx,
           interrupted, report, output_file>>
shared == <<request_count, stats, successful_proxies, progress_n>>
locks == <<request_count_lock, print_lock, stats_lock>>
locals == <<wpc, current_proxy, result>>
history == <<cur_idx, claims, probes>>
vars == <<inputs, mainv, shared, locks, locals, history>>

QueueIdx == 0 .. (MaxQueue - 1)

\* (False, None, None)
Failure == [success |-> FALSE, status_code |-> 0, elapsed_time |-> 0]

Response(code, t) == [success |-> TRUE, status_code |-> code, elapsed_time |-> t]

Outcomes == {Failure} \cup {Response(c, t) : c \in StatusCodes, t \in Elapsed}

InitStats ==
    [successful_requests |-> 0,
     failed_requests |-> 0,
     status_codes |-> [c \in StatusCodes |-> 0],
     total_time |-> 0,
     fastest_proxy |-> <<None, Inf>>,
     slowest_proxy |-> <<None, 0>>]

\* numbers that come out of a division are fractions <<numerator, denominator>>
Frac(n) == <<n, 1>>

\* a / b of two fractions; raised stands for ZeroDivisionError
FracDiv(a, b) ==
    IF b[1] = 0 THEN [raised |-> TRUE, q |-> Frac(0)]
    ELSE [raised |-> FALSE, q |-> <<a[1] * b[2], a[2] * b[1]>>]

\* a value that needed no division
Plain(n) == [raised |-> FALSE, q |-> Frac(n)]

NoReport == [printed |-> FALSE, total |-> 0, successful |-> 0, failed |-> 0,
             status_codes |-> [c \in StatusCodes |-> 0], performance |-> FALSE,
             percentage |-> [c \in StatusCodes |-> Frac(0)],
             avg_time |-> Frac(0), raised |-> FALSE]

NoFile == [written |-> FALSE, lines |-> {}]

NoProbe == [returned |-> 0, recorded |-> 0, outcome |-> Failure]

\* the program before the scan
ScanInit ==
    /\ via_cli \in BOOLEAN
    /\ arg_l \in (IF via_cli THEN BOOLEAN ELSE {FALSE})
    /\ arg_p \in (IF via_cli /\ ~arg_l THEN SingleProxies ELSE {None})
    /\ file_exists \in (IF arg_l THEN BOOLEAN ELSE {FALSE})
    /\ file_lines \in (IF file_exists THEN ProxyFiles ELSE {<<>>})
    /\ threads \in 0 .. MaxThreads
    /\ isp_flag \in BOOLEAN
    /\ target_up \in BOOLEAN
    /\ cpc = "main"
    /\ error = "none"
    /\ skipped = 0
    /\ proxies = <<>>
    /\ total_requests = 0
    /\ started = 0
    /\ join_idx = 0
    /\ interrupted = FALSE
    /\ report = NoReport
    /\ output_file = NoFile
    /\ request_count = 0
    /\ stats = InitStats
    /\ successful_proxies = {}
    /\ request_count_lock = NoOwner
    /\ print_lock = NoOwner
    /\ stats_lock = NoOwner
    /\ progress_n = 0
    /\ wpc = [w \in Workers |-> "unstarted"]
    /\ current_proxy = [w \in Workers |-> None]
    /\ result = [w \in Workers |-> Failure]
    /\ cur_idx = [w \in Workers |-> 0]
    /\ claims = <<>>
    /\ probes = [i \in QueueIdx |-> NoProbe]

Init ==
    /\ ScanInit
    /\ vp_input = None
    /\ vp_result = "not_called"

----------------------------------------------------------------------------
(* Main thread *)

\* if not args.p and not args.l: print error, else run_scan(...)
Main ==
    /\ cpc = "main"
    /\ IF via_cli /\ arg_p = None /\ ~arg_l
       THEN /\ error' = "no_input"
            /\ cpc' = "exit"
       ELSE /\ error' = error
            /\ cpc' = "precheck"
    /\ UNCHANGED <<inputs, skipped, proxies, total_requests, started, join_idx,
                   interrupted, report, output_file, shared, locks, locals, history>>

\* TargetCheck as it would be with the RequestException swallowed
TargetCheckIgnored ==
    /\ cpc = "precheck"
    /\ cpc' = "load"
    /\ UNCHANGED <<inputs, error, skipped, proxies, total_requests, started,
                   join_idx, interrupted, report, output_file, shared, locks,
                   locals, history>>

\* requests.get(domain, timeout=5): RequestException aborts the scan
TargetCheck ==
    /\ cpc = "precheck"
    /\ IF target_up
       THEN /\ cpc' = "load"
            /\ error' = error
       ELSE /\ cpc' = "exit"
            /\ error' = "unreachable"
    /\ UNCHANGED <<inputs, skipped, proxies, total_requests, started, join_idx,
                   interrupted, report, output_file, shared, locks, locals, history>>

\* where the main thread goes once n of the threads are started
AfterStart(n) ==
    IF n < threads THEN "spawn" ELSE IF threads > 0 THEN "join" ELSE "report"

\* build the work queue, then total_requests = len(proxies), request_count = 0
LoadInput ==
    /\ cpc = "load"
    /\ IF arg_l
       THEN IF ~file_exists
            THEN /\ error' = "file_not_found"
                 /\ cpc' = "exit"
                 /\ UNCHANGED <<proxies, skipped, total_requests>>
            ELSE /\ proxies' = LoadProxies(file_lines)
                 /\ skipped' = SkippedLines(file_lines)
                 /\ IF proxies' = <<>>
                    THEN /\ error' = "no_valid_proxies"
                         /\ cpc' = "exit"
                         /\ UNCHANGED total_requests
                    ELSE /\ error' = error
                         /\ total_requests' = Len(proxies')
                         /\ cpc' = AfterStart(0)
       ELSE IF arg_p # None
            THEN IF ~validate_proxy(format_proxy(arg_p))
                 THEN /\ error' = "invalid_proxy"
                      /\ cpc' = "exit"
                      /\ UNCHANGED <<proxies, skipped, total_requests>>
                 ELSE /\ proxies' = Append(proxies, format_proxy(arg_p))
                      /\ total_requests' = Len(proxies')
                      /\ error' = error
                      /\ cpc' = AfterStart(0)
                      /\ UNCHANGED skipped
            ELSE /\ total_requests' = Len(proxies)
                 /\ error' = error
                 /\ cpc' = AfterStart(0)
                 /\ UNCHANGED <<proxies, skipped>>
    /\ UNCHANGED <<inputs, started, join_idx, interrupted, report, output_file,
                   shared, locks, locals, history>>

\* t = threading.Thread(target=worker, args=(i,)); t.start()
StartWorker ==
    /\ cpc = "spawn"
    /\ started < threads
    /\ wpc' = [wpc EXCEPT ![started] = "claim"]
    /\ started' = started + 1
    /\ cpc' = AfterStart(started + 1)
    /\ UNCHANGED <<inputs, error, skipped, proxies, total_requests, join_idx,
                   interrupted, report, output_file, shared, locks,
                   current_proxy, result, history>>

\* JoinWorker as it would be if join() returned without waiting for the thread
JoinWorkerNoWait ==
    /\ cpc = "join"
    /\ join_idx' = join_idx + 1
    /\ cpc' = IF join_idx + 1 < threads THEN "join" ELSE "report"
    /\ UNCHANGED <<inputs, error, skipped, proxies, total_requests, started,
                   interrupted, report, output_file, shared, locks, locals, history>>

\* t.join() returns once thread join_idx has ended
JoinWorker ==
    /\ cpc = "join"
    /\ wpc[join_idx] = "done"
    /\ join_idx' = join_idx + 1
    /\ cpc' = IF join_idx + 1 < threads THEN "join" ELSE "report"
    /\ UNCHANGED <<inputs, error, skipped, proxies, total_requests, started,
                   interrupted, report, output_file, shared, locks, locals, history>>

\* Interrupt as it would be with the try/except inside the join loop
InterruptKeepsJoining ==
    /\ cpc = "join"
    /\ ~interrupted
    /\ interrupted' = TRUE
    /\ cpc' = "join"
    /\ UNCHANGED <<inputs, error, skipped, proxies, total_requests, started,
                   join_idx, report, output_file, shared, locks, locals, history>>

\* KeyboardInterrupt raised in t.join(): "Scan interrupted by user."
Interrupt ==
    /\ cpc = "join"
    /\ interrupted' = TRUE
    /\ cpc' = "report"
    /\ UNCHANGED <<inputs, error, skipped, proxies, total_requests, started,
                   join_idx, report, output_file, shared, locks, locals, history>>

\* ReportBlock as it would be with the average computed unconditionally
ReportBlockUnguardedAverage(st, total) ==
    LET pct == [c \in StatusCodes |->
                  IF st.status_codes[c] > 0
                  THEN FracDiv(Frac(100 * st.status_codes[c]), Frac(total))
                  ELSE Plain(0)]
        avg == FracDiv(Frac(st.total_time), Frac(st.successful_requests))
    IN  [printed |-> TRUE,
         total |-> total,
         successful |-> st.successful_requests,
         failed |-> st.failed_requests,
         status_codes |-> st.status_codes,
         performance |-> st.successful_requests > 0,
         percentage |-> [c \in StatusCodes |-> pct[c].q],
         avg_time |-> avg.q,
         raised |-> avg.raised \/ \E c \in StatusCodes : pct[c].raised]

\* the SCAN RESULTS block: one histogram line per status code in
\* stats['status_codes'] with percentage = (count / total_requests) * 100, the
\* average only if stats['successful_requests'] > 0
ReportBlock(st, total) ==
    LET pct == [c \in StatusCodes |->
                  IF st.status_codes[c] > 0
                  THEN FracDiv(Frac(100 * st.status_codes[c]), Frac(total))
                  ELSE Plain(0)]
        avg == IF st.successful_requests > 0
               THEN FracDiv(Frac(st.total_time), Frac(st.successful_requests))
               ELSE Plain(0)
    IN  [printed |-> TRUE,
         total |-> total,
         successful |-> st.successful_requests,
         failed |-> st.failed_requests,
         status_codes |-> st.status_codes,
         performance |-> st.successful_requests > 0,
         percentage |-> [c \in StatusCodes |-> pct[c].q],
         avg_time |-> avg.q,
         raised |-> avg.raised \/ \E c \in StatusCodes : pct[c].raised]

\* progress_bar.close() and the SCAN RESULTS block; a ZeroDivisionError ends
\* run_scan
PrintReport ==
    /\ cpc = "report"
    /\ report' = ReportBlock(stats, total_requests)
    /\ cpc' = IF report'.raised THEN "exit" ELSE "persist"
    /\ UNCHANGED <<inputs, error, skipped, proxies, total_requests, started,
                   join_idx, interrupted, output_file, shared, locks, locals, history>>

\* if successful_proxies: write working_proxies_<timestamp>.txt; run_scan returns
WriteFile ==
    /\ cpc = "persist"
    /\ output_file' = IF successful_proxies # {}
                      THEN [written |-> TRUE, lines |-> successful_proxies]
                      ELSE output_file
    /\ cpc' = "exit"
    /\ UNCHANGED <<inputs, error, skipped, proxies, total_requests, started,
                   join_idx, interrupted, report, shared, locks, locals, history>>

----------------------------------------------------------------------------
(* Statistics *)

\* RecordOutcome as it would be without the status_codes update
RecordOutcomeNoHistogram(st, proxy, r) ==
    IF r.success
    THEN [st EXCEPT
            !.successful_requests = @ + 1,
            !.total_time = @ + r.elapsed_time,
            !.fastest_proxy = IF r.elapsed_time < st.fastest_proxy[2]
                              THEN <<proxy, r.elapsed_time>> ELSE @,
            !.slowest_proxy = IF r.elapsed_time > st.slowest_proxy[2]
                              THEN <<proxy, r.elapsed_time>> ELSE @]
    ELSE [st EXCEPT !.failed_requests = @ + 1]

\* RecordOutcome as it would be without the else branch
RecordOutcomeDropFailure(st, proxy, r) ==
    IF r.success
    THEN [st EXCEPT
            !.successful_requests = @ + 1,
            !.status_codes[r.status_code] = @ + 1,
            !.total_time = @ + r.elapsed_time,
            !.fastest_proxy = IF r.elapsed_time < st.fastest_proxy[2]
                              THEN <<proxy, r.elapsed_time>> ELSE @,
            !.slowest_proxy = IF r.elapsed_time > st.slowest_proxy[2]
                              THEN <<proxy, r.elapsed_time>> ELSE @]
    ELSE st

\* RecordOutcome as it would be without the comparisons against the extrema
RecordOutcomeLastWins(st, proxy, r) ==
    IF r.success
    THEN [st EXCEPT
            !.successful_requests = @ + 1,
            !.status_codes[r.status_code] = @ + 1,
            !.total_time = @ + r.elapsed_time,
            !.fastest_proxy = <<proxy, r.elapsed_time>>,
            !.slowest_proxy = <<proxy, r.elapsed_time>>]
    ELSE [st EXCEPT !.failed_requests = @ + 1]

\* RecordOutcome as it would be with 4xx and 5xx responses counted as failures
RecordOutcomeHttpError(st, proxy, r) ==
    IF r.success /\ r.status_code < 400
    THEN [st EXCEPT
            !.successful_requests = @ + 1,
            !.status_codes[r.status_code] = @ + 1,
            !.total_time = @ + r.elapsed_time,
            !.fastest_proxy = IF r.elapsed_time < st.fastest_proxy[2]
                              THEN <<proxy, r.elapsed_time>> ELSE @,
            !.slowest_proxy = IF r.elapsed_time > st.slowest_proxy[2]
                              THEN <<proxy, r.elapsed_time>> ELSE @]
    ELSE [st EXCEPT !.failed_requests = @ + 1]

\* the body of `with stats_lock:` on stats
RecordOutcome(st, proxy, r) ==
    IF r.success
    THEN [st EXCEPT
            !.successful_requests = @ + 1,
            !.status_codes[r.status_code] = @ + 1,
            !.total_time = @ + r.elapsed_time,
            !.fastest_proxy = IF r.elapsed_time < st.fastest_proxy[2]
                              THEN <<proxy, r.elapsed_time>> ELSE @,
            !.slowest_proxy = IF r.elapsed_time > st.slowest_proxy[2]
                              THEN <<proxy, r.elapsed_time>> ELSE @]
    ELSE [st EXCEPT !.failed_requests = @ + 1]

\* AddSuccessful as it would be without the test of the status code
AddSuccessfulAnyStatus(set, proxy, r) ==
    IF r.success /\ proxy # None
    THEN set \cup {Remove(Remove(proxy, HttpPrefix), HttpsPrefix)}
    ELSE set

\* the body of `with stats_lock:` on successful_proxies
AddSuccessful(set, proxy, r) ==
    IF r.success /\ r.status_code = 200 /\ proxy # None
    THEN set \cup {Remove(Remove(proxy, HttpPrefix), HttpsPrefix)}
    ELSE set

----------------------------------------------------------------------------
(* Worker threads: daemon threads, they run while the process lives *)

Running(w) == wpc[w] \notin {"unstarted", "done"} /\ cpc # "exit"

\* AcquireCountLock as it would be without mutual exclusion on the cursor
AcquireCountLockNoWait(w) ==
    /\ Running(w)
    /\ wpc[w] = "claim"
    /\ request_count_lock' = w
    /\ wpc' = [wpc EXCEPT ![w] = "check"]
    /\ UNCHANGED <<inputs, mainv, shared, print_lock, stats_lock,
                   current_proxy, result, history>>

\* with request_count_lock: (enter)
AcquireCountLock(w) ==
    /\ Running(w)
    /\ wpc[w] = "claim"
    /\ request_count_lock = NoOwner
    /\ request_count_lock' = w
    /\ wpc' = [wpc EXCEPT ![w] = "check"]
    /\ UNCHANGED <<inputs, mainv, shared, print_lock, stats_lock,
                   current_proxy, result, history>>

\* CheckCursor as it would be if break left request_count_lock held
CheckCursorKeepLock(w) ==
    /\ Running(w)
    /\ wpc[w] = "check"
    /\ IF request_count >= total_requests
       THEN /\ wpc' = [wpc EXCEPT ![w] = "done"]
            /\ UNCHANGED <<request_count_lock, current_proxy, history>>
       ELSE /\ current_proxy' =
                [current_proxy EXCEPT
                    ![w] = IF proxies # <<>> THEN proxies[request_count + 1]
                           ELSE None]
            /\ cur_idx' = [cur_idx EXCEPT ![w] = request_count]
            /\ claims' = Append(claims, [worker |-> w, index |-> request_count,
                                         entry |-> current_proxy'[w]])
            /\ wpc' = [wpc EXCEPT ![w] = "incr"]
            /\ UNCHANGED <<request_count_lock, probes>>
    /\ UNCHANGED <<inputs, mainv, shared, print_lock, stats_lock, result>>

\* if request_count >= total_requests: break
\* current_proxy = proxies[request_count] if proxies else None
CheckCursor(w) ==
    /\ Running(w)
    /\ wpc[w] = "check"
    /\ IF request_count >= total_requests
       THEN /\ request_count_lock' = NoOwner
            /\ wpc' = [wpc EXCEPT ![w] = "done"]
            /\ UNCHANGED <<current_proxy, history>>
       ELSE /\ current_proxy' =
                [current_proxy EXCEPT
                    ![w] = IF proxies # <<>> THEN proxies[request_count + 1]
                           ELSE None]
            /\ cur_idx' = [cur_idx EXCEPT ![w] = request_count]
            /\ claims' = Append(claims, [worker |-> w, index |-> request_count,
                                         entry |-> current_proxy'[w]])
            /\ wpc' = [wpc EXCEPT ![w] = "incr"]
            /\ UNCHANGED <<request_count_lock, probes>>
    /\ UNCHANGED <<inputs, mainv, shared, print_lock, stats_lock, result>>

\* IncrCursor as it would be with visit_target called inside the with block
IncrCursorKeepLock(w) ==
    /\ Running(w)
    /\ wpc[w] = "incr"
    /\ request_count' = request_count + 1
    /\ wpc' = [wpc EXCEPT ![w] = IF isp_flag /\ current_proxy[w] # None
                                 THEN "isp" ELSE "probe"]
    /\ UNCHANGED <<inputs, mainv, stats, successful_proxies, progress_n,
                   locks, current_proxy, result, history>>

\* request_count += 1, leave the with block, call visit_target
IncrCursor(w) ==
    /\ Running(w)
    /\ wpc[w] = "incr"
    /\ request_count' = request_count + 1
    /\ request_count_lock' = NoOwner
    /\ wpc' = [wpc EXCEPT ![w] = IF isp_flag /\ current_proxy[w] # None
                                 THEN "isp" ELSE "probe"]
    /\ UNCHANGED <<inputs, mainv, stats, successful_proxies, progress_n,
                   print_lock, stats_lock, current_proxy, result, history>>

\* isp_info = get_isp_info(proxy_ip): network calls, each with timeout=2
IspLookup(w) ==
    /\ Running(w)
    /\ wpc[w] = "isp"
    /\ wpc' = [wpc EXCEPT ![w] = "probe"]
    /\ UNCHANGED <<inputs, mainv, shared, locks, current_proxy, result, history>>

\* requests.get(domain, proxies=proxies, timeout=2) returns or raises
ProbeReturn(w) ==
    /\ Running(w)
    /\ wpc[w] = "probe"
    /\ \E r \in Outcomes :
         /\ result' = [result EXCEPT ![w] = r]
         /\ probes' = [probes EXCEPT ![cur_idx[w]] =
                          [@ EXCEPT !.returned = @ + 1, !.outcome = r]]
    /\ wpc' = [wpc EXCEPT ![w] = "out_wait"]
    /\ UNCHANGED <<inputs, mainv, shared, locks, current_proxy, cur_idx, claims>>

\* with print_lock: (enter) in visit_target
AcquirePrintOutcome(w) ==
    /\ Running(w)
    /\ wpc[w] = "out_wait"
    /\ print_lock = NoOwner
    /\ print_lock' = w
    /\ wpc' = [wpc EXCEPT ![w] = "out_print"]
    /\ UNCHANGED <<inputs, mainv, shared, request_count_lock, stats_lock,
                   current_proxy, result, history>>

\* PrintOutcome as it would be if print_lock were acquired and not released
PrintOutcomeKeepLock(w) ==
    /\ Running(w)
    /\ wpc[w] = "out_print"
    /\ wpc' = [wpc EXCEPT ![w] = "stats_wait"]
    /\ UNCHANGED <<inputs, mainv, shared, locks, current_proxy, result, history>>

\* print the outcome line, leave the with block, return from visit_target
PrintOutcome(w) ==
    /\ Running(w)
    /\ wpc[w] = "out_print"
    /\ print_lock' = NoOwner
    /\ wpc' = [wpc EXCEPT ![w] = "stats_wait"]
    /\ UNCHANGED <<inputs, mainv, shared, request_count_lock, stats_lock,
                   current_proxy, result, history>>

\* with stats_lock: (enter)
AcquireStatsLock(w) ==
    /\ Running(w)
    /\ wpc[w] = "stats_wait"
    /\ stats_lock = NoOwner
    /\ stats_lock' = w
    /\ wpc' = [wpc EXCEPT ![w] = "record"]
    /\ UNCHANGED <<inputs, mainv, shared, request_count_lock, print_lock,
                   current_proxy, result, history>>

\* the body of `with stats_lock:`, then leave the with block
RecordResult(w) ==
    /\ Running(w)
    /\ wpc[w] = "record"
    /\ stats' = RecordOutcome(stats, current_proxy[w], result[w])
    /\ successful_proxies' = AddSuccessful(successful_proxies, current_proxy[w],
                                           result[w])
    /\ probes' = [probes EXCEPT ![cur_idx[w]].recorded = @ + 1]
    /\ stats_lock' = NoOwner
    /\ wpc' = [wpc EXCEPT ![w] = "progress"]
    /\ UNCHANGED <<inputs, mainv, request_count, progress_n, request_count_lock,
                   print_lock, current_proxy, result, cur_idx, claims>>

\* progress_bar.update(1)
ProgressUpdate(w) ==
    /\ Running(w)
    /\ wpc[w] = "progress"
    /\ progress_n' = progress_n + 1
    /\ wpc' = [wpc EXCEPT ![w] = "rate_wait"]
    /\ UNCHANGED <<inputs, mainv, request_count, stats, successful_proxies,
                   locks, current_proxy, result, history>>

\* with print_lock: (enter) in worker
AcquirePrintRate(w) ==
    /\ Running(w)
    /\ wpc[w] = "rate_wait"
    /\ print_lock = NoOwner
    /\ print_lock' = w
    /\ wpc' = [wpc EXCEPT ![w] = "rate_print"]
    /\ UNCHANGED <<inputs, mainv, shared, request_count_lock, stats_lock,
                   current_proxy, result, history>>

\* rate = count / elapsed_total_time if elapsed_total_time > 0 else 0
\* remaining_time = (total - count) / rate if rate > 0 else 0
RateLine(count, total, elapsed_total_time) ==
    LET rate == IF elapsed_total_time > 0
                THEN FracDiv(Frac(count), Frac(elapsed_total_time))
                ELSE Plain(0)
        remaining_time == IF rate.q[1] > 0
                          THEN FracDiv(Frac(total - count), rate.q)
                          ELSE Plain(0)
    IN  [count |-> count, rate |-> rate.q,
         remaining_time |-> remaining_time.q,
         raised |-> rate.raised \/ remaining_time.raised]

\* the rate line a worker prints when elapsed_total_time has passed since
\* start_time: computed from request_count and total_requests
PrintedRateLine(elapsed_total_time) ==
    RateLine(request_count, total_requests, elapsed_total_time)

\* compute and print the rate line, leave the with block, loop; a
\* ZeroDivisionError ends the thread
PrintRate(w) ==
    /\ Running(w)
    /\ wpc[w] = "rate_print"
    /\ \E elapsed_total_time \in Elapsed :
         wpc' = [wpc EXCEPT ![w] =
                   IF PrintedRateLine(elapsed_total_time).raised
                   THEN "done" ELSE "claim"]
    /\ print_lock' = NoOwner
    /\ UNCHANGED <<inputs, mainv, shared, request_count_lock, stats_lock,
                   current_proxy, result, history>>

Worker(w) ==
    \/ AcquireCountLock(w)
    \/ CheckCursor(w)
    \/ IncrCursor(w)
    \/ IspLookup(w)
    \/ ProbeReturn(w)
    \/ AcquirePrintOutcome(w)
    \/ PrintOutcome(w)
    \/ AcquireStatsLock(w)
    \/ RecordResult(w)
    \/ ProgressUpdate(w)
    \/ AcquirePrintRate(w)
    \/ PrintRate(w)

MainThread ==
    \/ Main
    \/ TargetCheck
    \/ LoadInput
    \/ StartWorker
    \/ JoinWorker
    \/ Interrupt
    \/ PrintReport
    \/ WriteFile

Next == MainThread \/ \E w \in Workers : Worker(w)

Spec == Init /\ [][Next]_vars

\* the steps of the main thread other than the operator's interrupt
MainProgress ==
    \/ Main
    \/ TargetCheck
    \/ LoadInput
    \/ StartWorker
    \/ JoinWorker
    \/ PrintReport
    \/ WriteFile

\* the module imported and nothing run: validate_proxy is called on its own
ValidateInit ==
    /\ ScanInit
    /\ ~via_cli /\ threads = 0 /\ ~isp_flag /\ ~target_up
    /\ vp_input \in ValidatorInputs
    /\ vp_result = "not_called"

\* validate_proxy(vp_input)
ValidateCall ==
    /\ vp_result = "not_called"
    /\ vp_result' = validate_proxy_outcome(vp_input)
    /\ UNCHANGED <<via_cli, arg_p, arg_l, file_exists, file_lines, threads,
                   isp_flag, target_up, vp_input, mainv, shared, locks, locals,
                   history>>

ValidateSpec == ValidateInit /\ [][ValidateCall]_vars

\* a run in which the operator sends no interrupt
Uninterrupted == MainProgress \/ \E w \in Workers : Worker(w)

\* no interrupt; every thread that can run is scheduled; every network call
\* returns
LiveSpec ==
    /\ Init /\ [][Uninterrupted]_vars
    /\ WF_vars(MainProgress)
    /\ \A w \in Workers : WF_vars(Worker(w))

----------------------------------------------------------------------------
(* Properties *)

Pool == 0 .. (threads - 1)

\* every worker thread of the pool has been started and has returned
AllDone == threads >= 1 /\ started = threads /\ \A w \in Pool : wpc[w] = "done"

InClaimSection(w) == wpc[w] \in {"check", "incr"}

\* C1: the j-th claim of the pool is queue index j-1 and its entry, so no index
\* is claimed twice; a worker between reading the cursor and incrementing it is
\* alone in the claim section and the cursor has not moved under it; once a
\* worker has found the queue exhausted every index has been claimed.
ClaimsExactlyOnceInOrder ==
    /\ Cardinality({w \in Workers : InClaimSection(w)}) <= 1
    /\ \A w \in Workers : wpc[w] = "incr" => cur_idx[w] = request_count
    /\ Len(claims) <= total_requests
    /\ \A j \in 1 .. Len(claims) :
         /\ claims[j].index = j - 1
         /\ j <= Len(proxies)
         /\ claims[j].entry = proxies[j]
    /\ (\E w \in Workers : wpc[w] = "done") => Len(claims) = total_requests

\* two workers, two entries, each worker claimed one of them
ClaimsSharedByTwoWorkers ==
    /\ AllDone
    /\ threads = 2
    /\ Len(claims) = 2
    /\ claims[1].worker # claims[2].worker

\* C2: when every worker is done, one outcome has been recorded per queue
\* entry, successful + failed = K and the cursor is K; the cursor never exceeds
\* K and every step leaves it or adds 1 to it.
ExactlyKOutcomes ==
    /\ [](/\ request_count <= total_requests
          /\ AllDone =>
               /\ stats.successful_requests + stats.failed_requests = total_requests
               /\ request_count = total_requests
               /\ \A i \in QueueIdx :
                    probes[i].recorded = (IF i < total_requests THEN 1 ELSE 0))
    /\ [][request_count' = request_count \/ request_count' = request_count + 1]_vars

\* two workers recorded a success and a failure for a queue of two
TwoOutcomesRecorded ==
    /\ AllDone
    /\ ~interrupted
    /\ threads = 2
    /\ total_requests = 2
    /\ stats.successful_requests = 1
    /\ stats.failed_requests = 1

InNetworkCall(w) == wpc[w] \in {"isp", "probe"}

\* C3: a worker inside get_isp_info or requests.get holds none of the locks.
NoLockAcrossNetworkCall ==
    \A w \in Workers :
        InNetworkCall(w) =>
            /\ request_count_lock # w
            /\ stats_lock # w
            /\ print_lock # w

\* the whole pool is inside requests.get at the same time
WholePoolProbing ==
    /\ threads = MaxThreads
    /\ \A w \in Workers : wpc[w] = "probe"
    /\ request_count_lock = NoOwner
    /\ stats_lock = NoOwner
    /\ print_lock = NoOwner

\* the statistics after the outcomes of queue entries 0 .. n-1 are merged in
\* index order
RECURSIVE MergedInIndexOrder(_)
MergedInIndexOrder(n) ==
    IF n = 0 THEN InitStats
    ELSE RecordOutcome(MergedInIndexOrder(n - 1), proxies[n], probes[n - 1].outcome)

RECURSIVE WorkingInIndexOrder(_)
WorkingInIndexOrder(n) ==
    IF n = 0 THEN {}
    ELSE AddSuccessful(WorkingInIndexOrder(n - 1), proxies[n], probes[n - 1].outcome)

\* two different proxies both answered in d ticks
TieAt(d) ==
    \E i, j \in 0 .. (total_requests - 1) :
        /\ proxies[i + 1] # proxies[j + 1]
        /\ probes[i].outcome.success /\ probes[i].outcome.elapsed_time = d
        /\ probes[j].outcome.success /\ probes[j].outcome.elapsed_time = d

SameCounts(a, b) ==
    /\ a.successful_requests = b.successful_requests
    /\ a.failed_requests = b.failed_requests
    /\ a.status_codes = b.status_codes

EmptyQueueAborts ==
    (threads >= 1 /\ proxies = <<>>) => (started = 0 /\ ~report.printed)

DirectMode == ~arg_l /\ arg_p = None

\* C6 as claimed: a direct-mode scan whose every probe is answered 200 ends
\* with one probe of proxy None, successful = 1, failed = 0, histogram {200: 1},
\* no working proxy and no output file.
DirectScanProbesOnce ==
    ( /\ DirectMode
      /\ threads >= 1
      /\ cpc = "exit"
      /\ error = "none"
      /\ ~interrupted
      /\ \A i \in QueueIdx :
            probes[i].returned > 0 => probes[i].outcome.status_code = 200 )
    =>
    ( /\ Len(claims) = 1
      /\ claims[1].entry = None
      /\ probes[0].returned = 1
      /\ stats.successful_requests = 1
      /\ stats.failed_requests = 0
      /\ stats.status_codes = [c \in StatusCodes |-> IF c = 200 THEN 1 ELSE 0]
      /\ successful_proxies = {}
      /\ ~output_file.written )

\* C7: once an error is printed the program is over with no worker started,
\* the cursor at 0, the statistics untouched, no report and no output file;
\* every abort condition ends in its error; an unreachable target ends the scan
\* before any proxy input is loaded, whatever the input.
AbortsLeaveNoTrace ==
    /\ error # "none" =>
         /\ cpc = "exit"
         /\ started = 0
         /\ \A w \in Workers : wpc[w] = "unstarted"
         /\ request_count = 0
         /\ stats = InitStats
         /\ successful_proxies = {}
         /\ ~report.printed
         /\ ~output_file.written
    /\ ~target_up =>
         /\ cpc \in {"main", "precheck", "exit"}
         /\ proxies = <<>>
         /\ skipped = 0
    /\ cpc = "exit" =>
         IF via_cli /\ arg_p = None /\ ~arg_l THEN error = "no_input"
         ELSE IF ~target_up THEN error = "unreachable"
         ELSE IF arg_l /\ ~file_exists THEN error = "file_not_found"
         ELSE IF arg_l /\ LoadProxies(file_lines) = <<>>
              THEN error = "no_valid_proxies"
         ELSE IF ~arg_l /\ arg_p # None /\ ~validate_proxy(format_proxy(arg_p))
              THEN error = "invalid_proxy"
         ELSE TRUE

\* the target is down and the proxy file holds valid entries
UnreachableTargetAborts ==
    /\ cpc = "exit"
    /\ error = "unreachable"
    /\ arg_l /\ file_exists
    /\ LoadProxies(file_lines) # <<>>

\* queue entries whose recorded outcome is a 200
Answered200 ==
    {proxies[i + 1] : i \in {k \in 0 .. (total_requests - 1) :
                                /\ probes[k].recorded > 0
                                /\ probes[k].outcome.success
                                /\ probes[k].outcome.status_code = 200}}

\* C8: the successful-proxy set is the set of queue entries with a recorded
\* 200 (so never a failed or non-200 proxy), it only grows, and the output file
\* holds that set and is written iff the set is not empty.
WorkingSetIsThe200s ==
    /\ [](/\ successful_proxies = Answered200
          /\ None \notin successful_proxies
          /\ (AllDone /\ cpc = "exit") =>
               /\ output_file.written <=> successful_proxies # {}
               /\ output_file.lines = successful_proxies)
    /\ [][successful_proxies \subseteq successful_proxies']_vars

\* two proxies, one fails and one answers 200: the file holds the one
OneOfTwoPersisted ==
    /\ AllDone
    /\ cpc = "exit"
    /\ ~interrupted
    /\ total_requests = 2
    /\ probes[0].outcome = Failure
    /\ probes[1].outcome.status_code = 200
    /\ stats.successful_requests = 1
    /\ stats.failed_requests = 1
    /\ output_file = [written |-> TRUE, lines |-> {proxies[2]}]

RecordStep(w) == wpc[w] = "record" /\ wpc'[w] = "progress"

\* C9: recording a response of any status adds 1 to successful_requests and to
\* the bucket of its status and leaves failed_requests; recording a transport
\* failure adds 1 to failed_requests and leaves everything else; nothing but a
\* recording step changes the statistics; no entry is probed twice.
RecordingFrame ==
    /\ [](\A i \in QueueIdx : probes[i].returned <= 1)
    /\ [][/\ \A w \in Workers :
               RecordStep(w) =>
                 IF result[w].success
                 THEN /\ stats'.successful_requests = stats.successful_requests + 1
                      /\ stats'.failed_requests = stats.failed_requests
                      /\ \A c \in StatusCodes :
                           stats'.status_codes[c] =
                             stats.status_codes[c]
                               + (IF c = result[w].status_code THEN 1 ELSE 0)
                 ELSE /\ stats' = [stats EXCEPT !.failed_requests = @ + 1]
                      /\ successful_proxies' = successful_proxies
          /\ (stats' # stats \/ successful_proxies' # successful_proxies) =>
               \E w \in Workers : RecordStep(w)]_vars

\* a 404 was recorded as a successful request, a transport failure as failed
NonOkStatusCountsAsSuccess ==
    /\ AllDone
    /\ stats.status_codes[404] = 1
    /\ stats.successful_requests = 1
    /\ stats.failed_requests = 1

\* C10: with every thread scheduled, every probe returning and no interrupt, a
\* started scan reaches the end of the joins with all workers done; a worker that finds the cursor at the queue length ends
\* without claiming or probing and with the cursor lock released, and stays
\* ended; no more than K workers ever claim an entry.
PoolTerminates ==
    /\ (cpc \in {"spawn", "join"}) ~> (AllDone /\ join_idx = threads)
    /\ [](Cardinality({claims[j].worker : j \in 1 .. Len(claims)}) <= total_requests)
    /\ [][\A w \in Workers :
            /\ ( /\ wpc[w] = "check"
                 /\ request_count >= total_requests
                 /\ wpc'[w] # "check" ) =>
                   /\ wpc'[w] = "done"
                   /\ request_count_lock' = NoOwner
                   /\ claims' = claims
                   /\ probes' = probes
                   /\ request_count' = request_count
            /\ wpc[w] = "done" => wpc'[w] = "done"]_vars

\* more workers than entries: one entry, two workers, the joins completed
ExcessWorkerEnded ==
    /\ AllDone
    /\ ~interrupted
    /\ join_idx = threads
    /\ threads = 2
    /\ total_requests = 1
    /\ Len(claims) = 1
    /\ request_count_lock = NoOwner

\* the main thread is at the final report or at the output file, about to read
\* stats and successful_proxies
ReadingResults == cpc \in {"report", "persist"}

\* a step changes stats or successful_proxies only while a worker holds
\* stats_lock inside the with block of lines 223-237
MutationsUnderStatsLock ==
    (stats' # stats \/ successful_proxies' # successful_proxies) =>
        \E w \in Workers : stats_lock = w /\ wpc[w] = "record"

\* C11 as claimed: whenever the main thread is at the final report or at the
\* output file every worker has ended, interrupt or not; and the statistics
\* change only under stats_lock.
ResultsReadAfterWorkersEnd ==
    /\ [](ReadingResults => \A w \in Pool : wpc[w] = "done")
    /\ [][MutationsUnderStatsLock]_vars

\* C11 as amended: when no interrupt was caught, the main thread is at the
\* final report or at the output file only with every worker ended; and the
\* statistics change only under stats_lock.
ResultsReadAfterJoins ==
    /\ []((ReadingResults /\ ~interrupted) => \A w \in Pool : wpc[w] = "done")
    /\ [][MutationsUnderStatsLock]_vars

\* two workers recorded, were joined, and the report is about to be printed
ReportAfterAllJoined ==
    /\ cpc = "report"
    /\ ~interrupted
    /\ AllDone
    /\ threads = 2
    /\ join_idx = 2
    /\ stats.successful_requests + stats.failed_requests = 2

\* the step in which the KeyboardInterrupt is caught
InterruptStep == ~interrupted /\ interrupted'

\* the step that prints the final report
ReportStep == cpc = "report" /\ cpc' = "persist"

\* C12: an interrupt is caught only during the joins and takes the main thread
\* straight to the report, leaving every worker, lock and statistic as it was;
\* after it no further thread is joined; a worker inside requests.get can still
\* return while the report and the file are produced; the report prints the
\* statistics as they are at that step, so successful + failed <= K.
InterruptGivesPartialReport ==
    /\ [][InterruptStep =>
            /\ cpc = "join"
            /\ cpc' = "report"
            /\ UNCHANGED <<shared, locks, locals, history>>]_vars
    /\ [][interrupted => join_idx' = join_idx]_vars
    /\ [][ReportStep =>
            /\ report'.printed
            /\ report'.total = total_requests
            /\ report'.successful = stats.successful_requests
            /\ report'.failed = stats.failed_requests
            /\ report'.status_codes = stats.status_codes]_vars
    /\ []((interrupted /\ ReadingResults) =>
            \A w \in Workers : wpc[w] = "probe" => ENABLED ProbeReturn(w))
    /\ [](report.printed => report.successful + report.failed <= report.total)

\* interrupted with one outcome recorded of two and a probe still in flight:
\* the report shows 1 of 2
PartialReportWhileProbing ==
    /\ interrupted
    /\ report.printed
    /\ report.total = 2
    /\ report.successful + report.failed = 1
    /\ \E w \in Workers : wpc[w] = "probe"
    /\ join_idx < threads

\* the proxy input has been read
Loaded == cpc \notin {"main", "precheck", "load"} /\ target_up

\* C13: every queue entry is accepted by validate_proxy; after a proxy file of
\* L lines of which M are invalid once the scheme is stripped, M warnings were
\* printed and the queue is the L - M valid lines, scheme stripped, in file
\* order; the scan goes on without an error when L - M > 0; a single proxy is
\* queued scheme-stripped iff it is valid.  Stated for the states before the
\* first worker starts; from the end of the load on, the inputs, the queue,
\* the warnings and the error do not change.
QueueIsTheValidLines ==
    /\ [](started = 0 =>
            /\ \A j \in 1 .. Len(proxies) : validate_proxy(proxies[j])
            /\ (Loaded /\ arg_l /\ file_exists) =>
                 LET L == Len(file_lines)
                     formatted == [i \in 1 .. L |-> format_proxy(file_lines[i])]
                     M == Cardinality({i \in 1 .. L : ~validate_proxy(formatted[i])})
                 IN  /\ skipped = M
                     /\ Len(proxies) = L - M
                     /\ proxies = SelectSeq(formatted, validate_proxy)
                     /\ (L - M > 0) => (error = "none" /\ total_requests = L - M)
                     /\ (L - M = 0) => error = "no_valid_proxies"
            /\ (Loaded /\ ~arg_l /\ arg_p # None) =>
                 IF validate_proxy(format_proxy(arg_p))
                 THEN proxies = <<format_proxy(arg_p)>> /\ error = "none"
                 ELSE proxies = <<>> /\ error = "invalid_proxy")
    /\ [][Loaded => UNCHANGED <<arg_p, arg_l, file_exists, file_lines, proxies,
                                skipped, total_requests, error>>]_vars

\* three lines, the second without a port, the third with a scheme: two
\* entries queued, one warning, both probed
InvalidLineSkipped ==
    /\ file_lines = <<sA, sNoPort, sSchemeB>>
    /\ proxies = <<sA, sB>>
    /\ skipped = 1
    /\ AllDone
    /\ stats.successful_requests + stats.failed_requests = 2

\* positions of the colons of a string
Colons(s) == {i \in 1 .. Len(s) : s[i] = ":"}

\* the string has one colon and the text after it is an int() literal whose
\* value is in 0 .. 65535
HostPortForm(s) ==
    /\ Cardinality(Colons(s)) = 1
    /\ LET k == CHOOSE i \in Colons(s) : TRUE
           port == ParseInt(SubSeq(s, k + 1, Len(s)))
       IN  port.ok /\ 0 <= port.val /\ port.val <= MaxPort

\* C14: a call of validate_proxy returns True or False and never raises; it
\* returns True exactly for the strings with one colon whose text after the
\* colon is an integer in 0 .. 65535; so False for the empty string, for no
\* colon and for more than one colon.
ValidateProxyExact ==
    vp_result # "not_called" =>
        /\ vp_result \in {"True", "False"}
        /\ vp_result = "True" <=> HostPortForm(vp_input)
        /\ vp_input = <<>> => vp_result = "False"
        /\ Cardinality(Colons(vp_input)) # 1 => vp_result = "False"

\* a port made of a letter: int() raises, the call returned False
NonIntegerPortRejected ==
    /\ vp_input = <<"a", ":", "a">>
    /\ vp_result = "False"

\* durations of the successful outcomes recorded so far
RecordedDurations ==
    {probes[i].outcome.elapsed_time :
        i \in {k \in 0 .. (total_requests - 1) :
                  probes[k].recorded > 0 /\ probes[k].outcome.success}}

\* C15 as claimed: recording the first successful outcome, of any duration
\* >= 0, stores (proxy, duration) as both the fastest and the slowest entry;
\* from then on the fastest entry holds the minimum and the slowest entry the
\* maximum duration of the successful outcomes recorded, beside a proxy.
FirstSuccessSetsBothExtrema ==
    /\ [][\A w \in Workers :
            (RecordStep(w) /\ result[w].success /\ stats.successful_requests = 0) =>
                /\ stats'.fastest_proxy = <<current_proxy[w], result[w].elapsed_time>>
                /\ stats'.slowest_proxy = <<current_proxy[w], result[w].elapsed_time>>]_vars
    /\ [](stats.successful_requests >= 1 =>
            /\ stats.fastest_proxy[1] # None
            /\ stats.slowest_proxy[1] # None
            /\ \A d \in RecordedDurations : stats.fastest_proxy[2] <= d
            /\ \A d \in RecordedDurations : stats.slowest_proxy[2] >= d
            /\ stats.fastest_proxy[2] \in RecordedDurations
            /\ stats.slowest_proxy[2] \in RecordedDurations)

\* requests completed: outcomes recorded in stats
Completed == stats.successful_requests + stats.failed_requests

\* the next step of worker w reads request_count: the test and the index of
\* lines 216-218, the increment of line 219, the rate line of lines 243-244
ReadsCursor(w) == wpc[w] \in {"check", "incr", "rate_print"}

\* C16 as claimed: the rate line a worker is about to print uses the number of
\* completed requests: rate = completed / elapsed when elapsed > 0, else 0;
\* remaining = (total - completed) / rate when rate > 0, else 0; its count
\* never exceeds successful + failed; and a worker reads the cursor only while
\* it holds request_count_lock.
RateLineCountsCompleted ==
    \A w \in Workers :
        /\ wpc[w] = "rate_print" =>
             \A t \in Elapsed :
                LET line == PrintedRateLine(t)
                IN  /\ line.count = Completed
                    /\ line.count <= stats.successful_requests + stats.failed_requests
                    /\ line.rate = IF t > 0 THEN <<Completed, t>> ELSE Frac(0)
                    /\ line.remaining_time =
                         IF line.rate[1] > 0
                         THEN <<(total_requests - Completed) * line.rate[2],
                                line.rate[1]>>
                         ELSE Frac(0)
        /\ ReadsCursor(w) => request_count_lock = w

\* the step in which worker w prints its rate line
RateStep(w) == wpc[w] = "rate_print" /\ wpc'[w] # "rate_print"

\* C17: no division by zero is reachable.  The final report never raises: the
\* average is computed only when successful > 0, a histogram line exists only
\* with total_requests > 0 (the histogram is empty when total_requests = 0)
\* and its percentage is 100 * count / total_requests.  The rate line never
\* raises: the rate is 0 when no time has elapsed and the remaining time is
\* computed only when the rate is > 0.  So no worker ends at its rate line
\* and the main thread goes on from the report to the output file.
NoDivisionByZero ==
    /\ [](/\ ~report.raised
          /\ report.printed =>
               /\ report.performance <=> report.successful > 0
               /\ report.successful = 0 => report.avg_time = Frac(0)
               /\ report.successful > 0 => report.avg_time[2] = report.successful
               /\ report.total = 0 =>
                    \A c \in StatusCodes : report.status_codes[c] = 0
               /\ \A c \in StatusCodes :
                    report.status_codes[c] > 0 =>
                       /\ report.total > 0
                       /\ report.percentage[c] =
                            <<100 * report.status_codes[c], report.total>>
          /\ \A w \in Workers :
               wpc[w] = "rate_print" =>
                  \A t \in Elapsed :
                     LET line == PrintedRateLine(t)
                     IN  /\ ~line.raised
                         /\ t = 0 => line.rate = Frac(0)
                         /\ line.rate[1] = 0 => line.remaining_time = Frac(0)
                         /\ line.rate[1] > 0 =>
                              line.remaining_time[2] = line.rate[1])
    /\ [][/\ \A w \in Workers : RateStep(w) => wpc'[w] = "claim"
          /\ (cpc = "report" /\ cpc' # "report") => cpc' = "persist"]_vars

\* both probes failed: the report is printed without an average
AllFailedReport ==
    /\ report.printed
    /\ report.total = 2
    /\ report.successful = 0
    /\ report.failed = 2
    /\ ~report.performance
    /\ cpc = "exit"

\* worker w is inside one of its with print_lock blocks, printing an outcome
\* line or the rate line
WorkerWriting(w) == wpc[w] \in {"out_print", "rate_print"}

\* the main thread is printing: the interrupt message and the SCAN RESULTS
\* block, written without print_lock
MainWriting == cpc = "report"

\* C18 as claimed: a worker prints its outcome line and its rate line holding
\* print_lock, at most one worker is printing at a time, and the main thread
\* prints the interrupt message and the final report only while no worker is
\* printing.
ConsoleWritesSerialized ==
    /\ \A w \in Workers : WorkerWriting(w) => print_lock = w
    /\ Cardinality({w \in Workers : WorkerWriting(w)}) <= 1
    /\ MainWriting => \A w \in Workers : ~WorkerWriting(w)

\* workers that have claimed an entry (cursor incremented) and not yet
\* recorded its outcome
InFlight ==
    {w \in Workers :
        wpc[w] \in {"isp", "probe", "out_wait", "out_print", "stats_wait", "record"}}

\* sum of the counts of the status-code histogram
RECURSIVE HistogramSum(_, _)
HistogramSum(hist, codes) ==
    IF codes = {} THEN 0
    ELSE LET c == CHOOSE x \in codes : TRUE
         IN  hist[c] + HistogramSum(hist, codes \ {c})

\* C19: 0 <= successful + failed <= request_count <= total_requests; the
\* difference request_count - (successful + failed) is the number of workers
\* that have claimed an entry and not yet recorded it, at most N; the counts of
\* the histogram sum to successful_requests.
CountersConsistent ==
    /\ 0 <= stats.successful_requests
    /\ 0 <= stats.failed_requests
    /\ Completed <= request_count
    /\ request_count <= total_requests
    /\ request_count - Completed = Cardinality(InFlight)
    /\ Cardinality(InFlight) <= threads
    /\ HistogramSum(stats.status_codes, StatusCodes) = stats.successful_requests

\* one outcome recorded as a 404, the other entry claimed and still probed
OneRecordedOneInFlight ==
    /\ request_count = 2
    /\ stats.successful_requests = 1
    /\ stats.status_codes[404] = 1
    /\ stats.failed_requests = 0
    /\ \E w \in Workers : wpc[w] = "probe"

\* number of the three locks worker w holds
LocksHeld(w) ==
    (IF request_count_lock = w THEN 1 ELSE 0)
      + (IF print_lock = w THEN 1 ELSE 0)
      + (IF stats_lock = w THEN 1 ELSE 0)

\* worker w waits at the entry of a with block whose lock worker h holds
WaitsFor(w, h) ==
    \/ wpc[w] = "claim" /\ request_count_lock = h
    \/ wpc[w] \in {"out_wait", "rate_wait"} /\ print_lock = h
    \/ wpc[w] = "stats_wait" /\ stats_lock = h

\* C20: a worker holds at most one of the three locks; a lock is held exactly
\* by a worker inside the matching with block, so it is free again after every
\* exit of the block, the break included, and an ended worker holds none; and
\* there is no deadlock: while the program lives every worker that has not
\* ended can take a step, or waits for a lock whose holder can take a step.
\* The step that takes a worker out of a with block frees the lock.
LockDiscipline ==
    /\ [](/\ \A w \in Workers :
               /\ LocksHeld(w) <= 1
               /\ request_count_lock = w <=> wpc[w] \in {"check", "incr"}
               /\ print_lock = w <=> wpc[w] \in {"out_print", "rate_print"}
               /\ stats_lock = w <=> wpc[w] = "record"
               /\ Running(w) =>
                    \/ ENABLED Worker(w)
                    \/ \E h \in Workers \ {w} :
                          WaitsFor(w, h) /\ ENABLED Worker(h)
          /\ request_count_lock \in Workers \cup {NoOwner}
          /\ print_lock \in Workers \cup {NoOwner}
          /\ stats_lock \in Workers \cup {NoOwner})
    /\ [][\A w \in Workers :
            /\ (request_count_lock = w /\ wpc'[w] \notin {"check", "incr"}) =>
                 request_count_lock' = NoOwner
            /\ (print_lock = w /\ wpc'[w] \notin {"out_print", "rate_print"}) =>
                 print_lock' = NoOwner
            /\ (stats_lock = w /\ wpc'[w] # "record") =>
                 stats_lock' = NoOwner]_vars

\* a worker waits for print_lock while the other prints its outcome line
WaitingForPrintLock ==
    /\ \E w, h \in Workers : w # h /\ wpc[w] = "rate_wait" /\ WaitsFor(w, h)
    /\ \E w \in Workers : wpc[w] = "out_print"

====
